---- MODULE Spec2Model ----
(***************************************************************************)
(* A model of the quiz session engine of TestownikCLI (src/quiz/quiz.py,   *)
(* src/quiz/question.py): the progress file on disk, the Quiz object built *)
(* from a directory, and the run loop with its calls to the interface.     *)
(***************************************************************************)
EXTENDS Integers, Sequences, FiniteSets, TLC

\* ------------------------------------------------------------------ bounds
\* largest counter value written in a progress file that exists at start
MaxCount == 1
\* longest "correct"/"incorrect" list in a progress file that exists at start
MaxListLen == 2
\* number of Quiz objects constructed in one behaviour
MaxSessions == 2
\* number of calls of run() in one behaviour
MaxRuns == 2
\* length of an answer mask given to a function called on its own
MaxMaskLen == 3
\* length of a user input given to answers_ok called on its own
MaxInputLen == 3
\* number of lines of a question file given to from_file
MaxLines == 3
\* number of directories the walk of _collect_quiz_dirs meets
MaxDirs == 3

\* ------------------------------------------------------------- vocabulary
\* the question files a set directory may hold, in sorted() order
AllFiles == <<"q1.txt", "q2.txt">>

Ids == {AllFiles[i] : i \in 1..Len(AllFiles)}

Keys == {"correct", "incorrect"}

\* first line of each question file (tests/test_learn.py: "10" and "01")
MaskOf(name) == IF name = "q1.txt" THEN <<"1", "0">> ELSE <<"0", "1">>

\* what the user may type at the prompt
Inputs == { <<"1">>, <<"2">>, <<"2", " ", "1">> }

DigitChars == <<"0", "1", "2", "3", "4", "5", "6", "7", "8", "9">>

Range(s) == {s[i] : i \in 1..Len(s)}

\* ------------------------------------------------------------ Question
IsDigit(ch) == ch \in Range(DigitChars)

DigitValue(ch) == (CHOOSE d \in 1..10 : DigitChars[d] = ch) - 1

\* Question.parse_user_input: every digit character is one integer
ParseUserInput(user_input) ==
    {DigitValue(user_input[i]) : i \in {j \in 1..Len(user_input) : IsDigit(user_input[j])}}

RECURSIVE IndicesFrom(_, _)
IndicesFrom(mask, i) ==
    IF i > Len(mask) THEN <<>>
    ELSE IF mask[i] = "1" THEN <<i>> \o IndicesFrom(mask, i + 1)
    ELSE IndicesFrom(mask, i + 1)

\* CorrectIndices giving the positions as enumerate counts them, from 0
CorrectIndicesZeroBased(mask) ==
    [k \in 1..Len(IndicesFrom(mask, 1)) |-> IndicesFrom(mask, 1)[k] - 1]

\* Question.correct_indices: the 1-based positions of '1' in the mask
CorrectIndices(mask) == IndicesFrom(mask, 1)

\* AnswersOk accepting every input whose digits are among the correct ones
AnswersOkSubset(mask, user_input) ==
    ParseUserInput(user_input) \subseteq Range(CorrectIndices(mask))

\* Question.answers_ok
AnswersOk(mask, user_input) == ParseUserInput(user_input) = Range(CorrectIndices(mask))

\* str(n) of a positive integer: its decimal digits
RECURSIVE IntStr(_)
IntStr(n) ==
    IF n < 10 THEN <<DigitChars[n + 1]>>
    ELSE IntStr(n \div 10) \o <<DigitChars[(n % 10) + 1]>>

\* sep.join(map(str, indices))
RECURSIVE Join(_, _)
Join(indices, sep) ==
    IF indices = <<>> THEN <<>>
    ELSE IF Len(indices) = 1 THEN IntStr(indices[1])
    ELSE IntStr(indices[1]) \o sep \o Join(Tail(indices), sep)

\* Question.answers_as_str: the correct indices as the interface shows them
AnswersAsStr(mask) == Join(CorrectIndices(mask), <<",", " ">>)

\* ------------------------------------------------- text of a question file
\* A line is a sequence of symbols without its newline; "[img]", "[IMG]" and
\* "[/img]" are single symbols, as are the parts of a file name.
Whitespace == {" "}

\* str.lower on a symbol
Lower(ch) ==
    CASE ch = "[IMG]" -> "[img]"
      [] ch = "A" -> "a"
      [] ch = "B" -> "b"
      [] OTHER -> ch

LowerStr(s) == [i \in 1..Len(s) |-> Lower(s[i])]

\* str.lstrip(chars)
RECURSIVE LStrip(_, _)
LStrip(s, chars) ==
    IF s # <<>> /\ Head(s) \in chars THEN LStrip(Tail(s), chars) ELSE s

\* str.rstrip(chars)
RECURSIVE RStrip(_, _)
RStrip(s, chars) ==
    IF s # <<>> /\ s[Len(s)] \in chars THEN RStrip(SubSeq(s, 1, Len(s) - 1), chars) ELSE s

\* str.strip(chars)
Strip(s, chars) == LStrip(RStrip(s, chars), chars)

\* is_img_tag of Question.from_file
IsImgTag(line) ==
    LET l == LowerStr(Strip(line, Whitespace))
    IN  /\ Len(l) >= 2
        /\ l[1] = "[img]"
        /\ l[Len(l)] = "[/img]"

\* f.readline() for the k-th line: the empty string at end of file
ReadLine(lines, k) == IF k <= Len(lines) THEN lines[k] ELSE <<>>

\* [x.strip() for x in f.readlines() if x.strip() and not is_img_tag(x)]
RECURSIVE AvailableAnswers(_, _)
AvailableAnswers(lines, k) ==
    IF k > Len(lines) THEN <<>>
    ELSE LET x == Strip(lines[k], Whitespace)
         IN  (IF x # <<>> /\ ~IsImgTag(lines[k]) THEN <<x>> ELSE <<>>)
             \o AvailableAnswers(lines, k + 1)

\* Question.should_process: file.name.endswith('.txt')
ShouldProcess(name) == name # <<>> /\ name[Len(name)] = ".txt"

NoQuestion == [correct_answers |-> <<>>, question |-> <<>>, available_answers |-> <<>>]

\* Question.from_file on a path: the exception it raises ("none" when it
\* returns) and the Question it returns
FromFile(src) ==
    IF ~ShouldProcess(src.name) THEN [raised |-> "ValueError", q |-> NoQuestion]
    ELSE IF ~src.exists THEN [raised |-> "FileNotFoundError", q |-> NoQuestion]
    ELSE [raised |-> "none",
          q |-> [correct_answers |-> Strip(ReadLine(src.lines, 1), {"X"}),
                 question |-> RStrip(ReadLine(src.lines, 2), {" ", "?"}),
                 available_answers |-> AvailableAnswers(src.lines, 3)]]

\* --------------------------------------------------- the directory chooser
\* the symbols of a path in the order of their code points
CodeOrder == <<"/", "A", "B", "a", "b">>

CharCode(ch) == CHOOSE c \in 1..Len(CodeOrder) : CodeOrder[c] = ch

\* a < b for two str values
RECURSIVE StrLess(_, _)
StrLess(a, b) ==
    IF b = <<>> THEN FALSE
    ELSE IF a = <<>> THEN TRUE
    ELSE IF Head(a) = Head(b) THEN StrLess(Tail(a), Tail(b))
    ELSE CharCode(Head(a)) < CharCode(Head(b))

\* has_txt or has_progress of a directory the walk meets
HasTxt(d) == \E f \in d.entries : ShouldProcess(f)

HasProgress(d) == <<"progress", ".json">> \in d.entries

\* SortKey comparing the paths as they are spelled
SortKeyCased(d) == [group |-> IF HasProgress(d) THEN 0 ELSE 1, path |-> d.path]

\* the key of dirs.sort: (0 if progress.json exists else 1, str(d).lower())
SortKey(d) == [group |-> IF HasProgress(d) THEN 0 ELSE 1, path |-> LowerStr(d.path)]

\* k1 < k2 for two key tuples
KeyLess(k1, k2) ==
    \/ k1.group < k2.group
    \/ k1.group = k2.group /\ StrLess(k1.path, k2.path)

\* list.sort(key=...) is stable: d goes behind every element that is not
\* greater than it
RECURSIVE InsertByKey(_, _)
InsertByKey(sorted, d) ==
    IF sorted = <<>> THEN <<d>>
    ELSE IF KeyLess(SortKey(d), SortKey(Head(sorted))) THEN <<d>> \o sorted
    ELSE <<Head(sorted)>> \o InsertByKey(Tail(sorted), d)

RECURSIVE SortByKey(_)
SortByKey(list) ==
    IF list = <<>> THEN <<>>
    ELSE InsertByKey(SortByKey(SubSeq(list, 1, Len(list) - 1)), list[Len(list)])

\* _collect_quiz_dirs on the directories base.rglob("*") yields, in its order
CollectQuizDirs(walk) ==
    SortByKey(SelectSeq(walk, LAMBDA d : HasTxt(d) \/ HasProgress(d)))

\* ------------------------------------------------------- the progress file
\* A JSON value under "stats"[name]: an object with some of the two count
\* fields, or something that is not an object (a number, a list, null).
EmptyFields == [k \in {} |-> 0]

NonObjectEntry == [obj |-> FALSE, f |-> EmptyFields]

ObjectEntry(fields) == [obj |-> TRUE, f |-> fields]

\* dict.get(key, default)
Get(d, key, default) == IF key \in DOMAIN d THEN d[key] ELSE default

EmptyMap == [n \in {} |-> NonObjectEntry]

\* The file: absent, unreadable (OSError), not UTF-8 (UnicodeDecodeError),
\* not JSON (JSONDecodeError), JSON whose top level is no object, or an
\* object with optional fields "stats", "correct" and "incorrect".
SimpleFile(kind) ==
    [kind |-> kind, statsT |-> "missing", stats |-> EmptyMap,
     correctT |-> "missing", correct |-> <<>>,
     incorrectT |-> "missing", incorrect |-> <<>>]

ObjectFile(statsT, m, correctT, c, incorrectT, i) ==
    [kind |-> "object", statsT |-> statsT, stats |-> m,
     correctT |-> correctT, correct |-> c,
     incorrectT |-> incorrectT, incorrect |-> i]

\* ------------------------------------------------------ the store in memory
ZeroEntry == [k \in Keys |-> 0]

EmptyStats == [n \in {} |-> ZeroEntry]

\* the three attributes __init__ sets before _load_progress runs
EmptyStore == [stats |-> EmptyStats, correct_questions |-> <<>>, incorrect_questions |-> <<>>]

\* SetDefault as an assignment: an entry that exists is set to zero
SetDefaultOverwriting(st, name) ==
    [n \in DOMAIN st \cup {name} |-> IF n = name THEN ZeroEntry ELSE st[n]]

\* dict.setdefault(name, {"correct": 0, "incorrect": 0})
SetDefault(st, name) ==
    IF name \in DOMAIN st THEN st
    ELSE [n \in DOMAIN st \cup {name} |-> IF n \in DOMAIN st THEN st[n] ELSE ZeroEntry]

\* stats.setdefault(name, {...})[key] += 1
Increment(st, name, key) ==
    LET s1 == SetDefault(st, name)
    IN  [s1 EXCEPT ![name] = [@ EXCEPT ![key] = @ + 1]]

\* CountAll counting every name of the list once, however often it occurs
RECURSIVE CountAllOnce(_, _, _)
CountAllOnce(st, names, key) ==
    IF names = <<>> THEN st
    ELSE LET rest == SelectSeq(Tail(names), LAMBDA q : q # Head(names))
         IN  CountAllOnce(Increment(st, Head(names), key), rest, key)

\* for name in names: stats.setdefault(name, {...})[key] += 1
RECURSIVE CountAll(_, _, _)
CountAll(st, names, key) ==
    IF names = <<>> THEN st
    ELSE CountAll(Increment(st, Head(names), key), Tail(names), key)

\* FromCounterFormat reading "correct" for both counters
FromCounterFormatOneKey(m) ==
    [n \in DOMAIN m |-> [k \in Keys |-> Get(m[n].f, "correct", 0)]]

\* the dict comprehension of the counter format: absent count fields read 0
FromCounterFormat(m) ==
    [n \in DOMAIN m |-> [k \in Keys |-> Get(m[n].f, k, 0)]]

\* the legacy format: the two lists are kept and counted once per occurrence
FromLegacyFormat(f) ==
    LET cq == IF f.correctT = "list" THEN f.correct ELSE <<>>
        iq == IF f.incorrectT = "list" THEN f.incorrect ELSE <<>>
    IN  [stats |-> CountAll(CountAll(EmptyStats, cq, "correct"), iq, "incorrect"),
         correct_questions |-> cq,
         incorrect_questions |-> iq]

\* LoadProgress without the counter format: the lists are read in every object
LoadProgressListsOnly(f) ==
    CASE f.kind = "absent" -> [raised |-> FALSE, store |-> EmptyStore]
      [] f.kind \in {"unreadable", "undecodable", "badjson"} ->
            [raised |-> FALSE, store |-> EmptyStore]
      [] f.kind = "nonobject" -> [raised |-> TRUE, store |-> EmptyStore]
      [] OTHER -> [raised |-> FALSE, store |-> FromLegacyFormat(f)]

\* LoadProgress without the early return: the lists are counted on top of
\* the mapping
LoadProgressMerging(f) ==
    CASE f.kind = "absent" -> [raised |-> FALSE, store |-> EmptyStore]
      [] f.kind \in {"unreadable", "undecodable", "badjson"} ->
            [raised |-> FALSE, store |-> EmptyStore]
      [] f.kind = "nonobject" -> [raised |-> TRUE, store |-> EmptyStore]
      [] f.kind = "object" /\ f.statsT = "map" ->
            IF \E n \in DOMAIN f.stats : ~f.stats[n].obj
            THEN [raised |-> TRUE, store |-> EmptyStore]
            ELSE LET cq == IF f.correctT = "list" THEN f.correct ELSE <<>>
                     iq == IF f.incorrectT = "list" THEN f.incorrect ELSE <<>>
                 IN  [raised |-> FALSE,
                      store |-> [stats |-> CountAll(CountAll(FromCounterFormat(f.stats),
                                                             cq, "correct"), iq, "incorrect"),
                                 correct_questions |-> cq,
                                 incorrect_questions |-> iq]]
      [] OTHER -> [raised |-> FALSE, store |-> FromLegacyFormat(f)]

\* Quiz._load_progress, as the outcome of __init__: the store it leaves, or
\* raised = TRUE when an exception it does not catch leaves the constructor.
\* data.get raises AttributeError when data is no dict, v.get when v is none.
LoadProgress(f) ==
    CASE f.kind = "absent" -> [raised |-> FALSE, store |-> EmptyStore]
      [] f.kind \in {"unreadable", "undecodable", "badjson"} ->
            [raised |-> FALSE, store |-> EmptyStore]
      [] f.kind = "nonobject" -> [raised |-> TRUE, store |-> EmptyStore]
      [] f.kind = "object" /\ f.statsT = "map" ->
            IF \E n \in DOMAIN f.stats : ~f.stats[n].obj
            THEN [raised |-> TRUE, store |-> EmptyStore]
            ELSE [raised |-> FALSE,
                  store |-> [EmptyStore EXCEPT !.stats = FromCounterFormat(f.stats)]]
      [] OTHER -> [raised |-> FALSE, store |-> FromLegacyFormat(f)]

\* SaveProgress writing the entries of the solved identities only
SaveProgressSolvedOnly(st) ==
    ObjectFile("map",
               [n \in {x \in DOMAIN st.stats : st.stats[x]["correct"] > 0} |->
                    ObjectEntry(st.stats[n])],
               "list", st.correct_questions, "list", st.incorrect_questions)

\* Quiz._save_progress: the document json.dump writes
SaveProgress(st) ==
    ObjectFile("map", [n \in DOMAIN st.stats |-> ObjectEntry(st.stats[n])],
               "list", st.correct_questions, "list", st.incorrect_questions)

\* [q for q in rem_list if q != name]
Without(list, name) == SelectSeq(list, LAMBDA q : q # name)

\* if name not in add_list: add_list.append(name)
AppendNew(list, name) == IF name \in Range(list) THEN list ELSE Append(list, name)

\* RecordResult that takes the answer back from the counter of the other
\* outcome, as it does from the list of the other outcome
RecordResultRemoving(st, name, correct) ==
    LET key_add == IF correct THEN "correct" ELSE "incorrect"
        key_remove == IF correct THEN "incorrect" ELSE "correct"
        s1 == Increment(st.stats, name, key_add)
    IN  [stats |-> [s1 EXCEPT ![name] = [@ EXCEPT ![key_remove] = 0]],
         correct_questions |->
            IF correct THEN AppendNew(st.correct_questions, name)
            ELSE Without(st.correct_questions, name),
         incorrect_questions |->
            IF correct THEN Without(st.incorrect_questions, name)
            ELSE AppendNew(st.incorrect_questions, name)]

\* RecordResult with the two counter keys exchanged
RecordResultSwapped(st, name, correct) ==
    LET key_add == IF correct THEN "incorrect" ELSE "correct"
    IN  [stats |-> Increment(st.stats, name, key_add),
         correct_questions |->
            IF correct THEN AppendNew(st.correct_questions, name)
            ELSE Without(st.correct_questions, name),
         incorrect_questions |->
            IF correct THEN Without(st.incorrect_questions, name)
            ELSE AppendNew(st.incorrect_questions, name)]

\* Quiz._record_result
RecordResult(st, name, correct) ==
    LET key_add == IF correct THEN "correct" ELSE "incorrect"
    IN  [stats |-> Increment(st.stats, name, key_add),
         correct_questions |->
            IF correct THEN AppendNew(st.correct_questions, name)
            ELSE Without(st.correct_questions, name),
         incorrect_questions |->
            IF correct THEN Without(st.incorrect_questions, name)
            ELSE AppendNew(st.incorrect_questions, name)]

\* ShouldSkip reading the other counter of the entry
ShouldSkipWrongKey(skip, st, name) ==
    skip /\ Get(Get(st.stats, name, EmptyFields), "incorrect", 0) > 0

\* Quiz._should_skip
ShouldSkip(skip, st, name) ==
    skip /\ Get(Get(st.stats, name, EmptyFields), "correct", 0) > 0

\* sum(1 for v in st.values() if hit(v)), hit[n] telling the test on st[n]
RECURSIVE SumOnes(_, _)
SumOnes(hit, names) ==
    IF names = {} THEN 0
    ELSE LET n == CHOOSE x \in names : TRUE
         IN  (IF hit[n] THEN 1 ELSE 0) + SumOnes(hit, names \ {n})

\* TotalUniqueCorrect counting every entry that has a counter above zero
TotalUniqueCorrectAnyCount(st) ==
    SumOnes([n \in DOMAIN st |-> st[n]["correct"] > 0 \/ st[n]["incorrect"] > 0], DOMAIN st)

\* Quiz.total_unique_correct
TotalUniqueCorrect(st) ==
    SumOnes([n \in DOMAIN st |-> st[n]["correct"] > 0], DOMAIN st)

\* TotalUniqueIncorrect without the test that the identity was never solved
TotalUniqueIncorrectAnyWrong(st) ==
    SumOnes([n \in DOMAIN st |-> st[n]["incorrect"] > 0], DOMAIN st)

\* Quiz.total_unique_incorrect
TotalUniqueIncorrect(st) ==
    SumOnes([n \in DOMAIN st |-> st[n]["correct"] = 0 /\ st[n]["incorrect"] > 0], DOMAIN st)

\* Ratio dividing by the number of identities the store holds
RatioOverStore(st, qs) ==
    IF Cardinality(DOMAIN st) > 0
    THEN [num |-> TotalUniqueCorrect(st), den |-> Cardinality(DOMAIN st)]
    ELSE [num |-> 0, den |-> 1]

\* Quiz.ratio, as the fraction num/den the float division rounds
Ratio(st, qs) ==
    IF Len(qs) > 0
    THEN [num |-> TotalUniqueCorrect(st), den |-> Len(qs)]
    ELSE [num |-> 0, den |-> 1]

\* Quiz.from_directory: the .txt files of the directory, sorted
QuestionsOf(directory) == SelectSeq(AllFiles, LAMBDA file : file \in directory)

\* ------------------------------------------------------------------ state
VARIABLES
    file,                   \* content of progress.json in the set directory
    directory,              \* names of the question files in the set directory
    pc,                     \* where the program is (see Next)
    questions,              \* Quiz.questions
    should_update_progress, \* Quiz.should_update_progress
    skip_solved,            \* Quiz.skip_solved
    stats,                  \* Quiz.stats
    correct_questions,      \* Quiz.correct_questions
    incorrect_questions,    \* Quiz.incorrect_questions
    idx,                    \* run: position of the loop, 1-based
    user_ans,               \* _process_single: what ask returned
    correct,                \* _process_single: what answers_ok returned
    trace,                  \* the calls of the current run, in order
    latest,                 \* last recorded outcome of each identity over all
                            \* sessions; "unknown" when the file existed at start
                            \* or the result was recorded and not written
    sessions,               \* Quiz objects constructed so far
    runs,                   \* calls of run() so far
    probe                   \* a call of one function on its own: arguments and outcome

vars == <<file, directory, pc, questions, should_update_progress, skip_solved,
          stats, correct_questions, incorrect_questions, idx, user_ans, correct,
          trace, latest, sessions, runs, probe>>

engine == <<questions, should_update_progress, skip_solved>>

memory == <<stats, correct_questions, incorrect_questions>>

locals == <<user_ans, correct>>

Store ==
    [stats |-> stats, correct_questions |-> correct_questions,
     incorrect_questions |-> incorrect_questions]

\* a call of the interface: idx, total and the outcome as run passes them
Event(op, i, ok) == [op |-> op, idx |-> i, ok |-> ok, total |-> Len(questions)]

\* no function is called on its own
NoProbe == [fn |-> "none"]

\* ------------------------------------------------------- files at start
SeqsUpTo(S, n) == UNION {[1..k -> S] : k \in 0..n}

Entries ==
    {NonObjectEntry} \cup
    {ObjectEntry(f) : f \in UNION {[D -> 0..MaxCount] : D \in SUBSET Keys}}

CounterMaps == UNION {[S -> Entries] : S \in SUBSET Ids}

ListFields(n) ==
    {[t |-> "missing", v |-> <<>>]} \cup {[t |-> "list", v |-> l] : l \in SeqsUpTo(Ids, n)}

\* no "stats" field, or (with short lists) one that is no mapping
LegacyFiles ==
    {ObjectFile("missing", EmptyMap, c.t, c.v, i.t, i.v) :
        c \in ListFields(MaxListLen), i \in ListFields(MaxListLen)}
    \cup {ObjectFile("nonmap", EmptyMap, c.t, c.v, i.t, i.v) :
        c \in ListFields(1), i \in ListFields(1)}

\* "stats" is a mapping; the lists beside it are not read: "correct" is
\* absent or names the first question
CounterFiles ==
    {ObjectFile("map", m, c.t, c.v, "missing", <<>>) :
        m \in CounterMaps,
        c \in {[t |-> "missing", v |-> <<>>], [t |-> "list", v |-> <<AllFiles[1]>>]}}

InitFiles ==
    {SimpleFile(k) : k \in {"absent", "unreadable", "undecodable", "badjson", "nonobject"}}
    \cup LegacyFiles \cup CounterFiles

\* the state before the first Quiz is built, the file being one of files
EngineInit(files) ==
    /\ file \in files
    /\ directory \in SUBSET Ids
    /\ pc = "none"
    /\ questions = <<>>
    /\ should_update_progress = FALSE
    /\ skip_solved = FALSE
    /\ stats = EmptyStats
    /\ correct_questions = <<>>
    /\ incorrect_questions = <<>>
    /\ idx = 0
    /\ user_ans = <<>>
    /\ correct = FALSE
    /\ trace = <<>>
    /\ latest = [n \in Ids |-> IF file.kind = "absent" THEN "none" ELSE "unknown"]
    /\ sessions = 0
    /\ runs = 0

InitWith(files) ==
    /\ EngineInit(files)
    /\ probe = NoProbe

\* ------------------------------------------- functions called on their own
Masks == SeqsUpTo({"0", "1"}, MaxMaskLen)

\* inputs of tests/test_question.py and of its kind
ExampleInputs ==
    { <<"1", " ", "3">>, <<"1", "3">>, <<" ", "1", " ", " ", " ", "3", " ">>, <<"3", " ", "1">> }

UserInputs == SeqsUpTo({"0", "1", "2", "3", " "}, MaxInputLen) \cup ExampleInputs

\* masks of questions with ten and with twelve answers
LongMasks ==
    { <<"0", "0", "0", "0", "0", "0", "0", "0", "0", "1">>,
      <<"0", "1", "0", "0", "0", "0", "0", "0", "0", "0", "0", "1">> }

\* the correct answers typed as they are shown, or with spaces between them
ListedAnswers(m) == {AnswersAsStr(m), Join(CorrectIndices(m), <<" ">>)}

AnswersOkProbes ==
    {[fn |-> "answers_ok", mask |-> m, user_input |-> u, done |-> FALSE, result |-> FALSE] :
        m \in Masks, u \in UserInputs}
    \cup UNION {{[fn |-> "answers_ok", mask |-> m, user_input |-> u,
                  done |-> FALSE, result |-> FALSE] : u \in ListedAnswers(m)} :
                    m \in Masks \cup LongMasks}

\* a Question with a mask and a number of available answers
CorrectIndicesProbes ==
    {[fn |-> "correct_indices", mask |-> m, choices |-> n, done |-> FALSE, indices |-> <<>>] :
        m \in Masks, n \in 0..(MaxMaskLen + 1)}

SampleLines ==
    { <<>>,
      <<"X", "1", "0", "X">>,
      <<"1", "0", "1">>,
      <<"a", " ", "?">>,
      <<" ", "A", " ">>,
      <<" ", "[IMG]", "a", "[/img]">> }

\* a path given to from_file: a question file, a missing one, a picture
Sources ==
    {[name |-> <<"q1", ".txt">>, exists |-> TRUE, lines |-> l] :
        l \in SeqsUpTo(SampleLines, MaxLines)}
    \cup {[name |-> <<"q1", ".txt">>, exists |-> FALSE, lines |-> <<>>],
          [name |-> <<"q1", ".png">>, exists |-> TRUE, lines |-> <<>>]}

FromFileProbes ==
    {[fn |-> "from_file", src |-> f, done |-> FALSE,
      out |-> [raised |-> "none", q |-> NoQuestion]] : f \in Sources}

\* paths below the base directory, and what a directory may hold
Paths == { <<"/", "a">>, <<"/", "B">>, <<"/", "b">>, <<"/", "a", "/", "b">> }

EntryNames == { <<"q1", ".txt">>, <<"progress", ".json">>, <<"q1", ".png">> }

\* nothing, a picture, a question, a progress file, or all of them
DirContents ==
    { {}, {<<"q1", ".png">>}, {<<"q1", ".txt">>}, {<<"progress", ".json">>}, EntryNames }

\* rglob yields every directory once, in an order the file system decides
Walks ==
    UNION {{[i \in 1..k |-> [path |-> ps[i], entries |-> es[i]]] :
                ps \in {s \in [1..k -> Paths] : \A i, j \in 1..k : i # j => s[i] # s[j]},
                es \in [1..k -> DirContents]} : k \in 0..MaxDirs}

CollectProbes ==
    {[fn |-> "collect_quiz_dirs", walk |-> w, done |-> FALSE, dirs |-> <<>>] : w \in Walks}

\* one function is about to be called; no Quiz is built
CallInit ==
    /\ EngineInit({SimpleFile("absent")})
    /\ directory = {}
    /\ probe \in AnswersOkProbes \cup CorrectIndicesProbes \cup FromFileProbes \cup CollectProbes

Init == InitWith(InitFiles)

\* ---------------------------------------------------------------- actions
\* Quiz.from_directory and __init__: a new Quiz bound to the directory
Construct ==
    /\ pc \in {"none", "raised", "finished", "failed", "killed", "torn"}
    /\ sessions < MaxSessions
    /\ sessions' = sessions + 1
    /\ LET r == LoadProgress(file)
       IN  /\ pc' = IF r.raised THEN "raised" ELSE "idle"
           /\ stats' = r.store.stats
           /\ correct_questions' = r.store.correct_questions
           /\ incorrect_questions' = r.store.incorrect_questions
           /\ questions' = IF r.raised THEN <<>> ELSE QuestionsOf(directory)
           /\ IF r.raised
              THEN should_update_progress' = FALSE /\ skip_solved' = FALSE
              ELSE should_update_progress' \in BOOLEAN /\ skip_solved' \in BOOLEAN
    /\ idx' = 0
    /\ trace' = <<>>
    /\ user_ans' = <<>>
    /\ correct' = FALSE
    /\ UNCHANGED <<file, directory, probe, latest, runs>>

\* StartRun over an iterator of the questions that the first run used up
StartRunOnce ==
    /\ pc \in {"idle", "finished"}
    /\ runs < MaxRuns
    /\ runs' = runs + 1
    /\ pc' = "loop"
    /\ idx' = IF runs = 0 THEN 1 ELSE Len(questions) + 1
    /\ trace' = <<>>
    /\ UNCHANGED <<file, directory, probe, engine, memory, locals, latest, sessions>>

\* Quiz.run, entry: total and the enumerate iterator
StartRun ==
    /\ pc \in {"idle", "finished"}
    /\ runs < MaxRuns
    /\ runs' = runs + 1
    /\ pc' = "loop"
    /\ idx' = 1
    /\ trace' = <<>>
    /\ UNCHANGED <<file, directory, probe, engine, memory, locals, latest, sessions>>

\* Quiz.run: if self._should_skip(q): continue
Skip ==
    /\ pc = "loop"
    /\ idx <= Len(questions)
    /\ ShouldSkip(skip_solved, Store, questions[idx])
    /\ idx' = idx + 1
    /\ UNCHANGED <<file, directory, probe, pc, engine, memory, locals, trace, latest, sessions, runs>>

\* what ask may return: anything the user types, or, of an interface that
\* was given its answers (tests/dummy_classes), the next one of them
Offered ==
    IF probe.fn = "script"
    THEN {probe.answers[Cardinality({k \in 1..Len(trace) : trace[k].op = "ask"}) + 1]}
    ELSE Inputs

\* Ask handing over the position among the questions that are asked
AskCounting ==
    /\ pc = "loop"
    /\ idx <= Len(questions)
    /\ ~ShouldSkip(skip_solved, Store, questions[idx])
    /\ \E a \in Offered : user_ans' = a
    /\ pc' = "asked"
    /\ trace' = Append(trace,
                       Event("ask", Cardinality({k \in 1..Len(trace) : trace[k].op = "ask"}) + 1,
                             FALSE))
    /\ UNCHANGED <<file, directory, probe, engine, memory, idx, correct, latest, sessions, runs>>

\* _process_single: user_ans = self.interface.ask(question, idx, total)
Ask ==
    /\ pc = "loop"
    /\ idx <= Len(questions)
    /\ ~ShouldSkip(skip_solved, Store, questions[idx])
    /\ \E a \in Offered : user_ans' = a
    /\ pc' = "asked"
    /\ trace' = Append(trace, Event("ask", idx, FALSE))
    /\ UNCHANGED <<file, directory, probe, engine, memory, idx, correct, latest, sessions, runs>>

\* _process_single: correct = question.answers_ok(user_ans);
\*                  self._record_result(question.file.name, correct)
Record ==
    /\ pc = "asked"
    /\ LET name == questions[idx]
           ok == AnswersOk(MaskOf(name), user_ans)
           st == RecordResult(Store, name, ok)
       IN  /\ correct' = ok
           /\ stats' = st.stats
           /\ correct_questions' = st.correct_questions
           /\ incorrect_questions' = st.incorrect_questions
           /\ trace' = Append(trace, Event("record", idx, ok))
           /\ latest' = [latest EXCEPT ![name] =
                            IF ~should_update_progress THEN "unknown"
                            ELSE IF ok THEN "correct" ELSE "incorrect"]
    /\ pc' = "recorded"
    /\ UNCHANGED <<file, directory, probe, engine, idx, user_ans, sessions, runs>>

\* Notify handing over the opposite outcome
NotifyNegated ==
    /\ pc = "recorded"
    /\ trace' = Append(trace, Event("notify", idx, ~correct))
    /\ pc' = "notified"
    /\ UNCHANGED <<file, directory, probe, engine, memory, idx, locals, latest, sessions, runs>>

\* _process_single: self.interface.notify_result(question, correct, idx, total)
Notify ==
    /\ pc = "recorded"
    /\ trace' = Append(trace, Event("notify", idx, correct))
    /\ pc' = "notified"
    /\ UNCHANGED <<file, directory, probe, engine, memory, idx, locals, latest, sessions, runs>>

\* MaybeSave that writes whatever the flag says
MaybeSaveAlways ==
    /\ pc = "notified"
    /\ file' = SaveProgress(Store)
    /\ trace' = Append(trace, Event("save", idx, correct))
    /\ pc' = "saved"
    /\ UNCHANGED <<directory, probe, engine, memory, idx, locals, latest, sessions, runs>>

\* MaybeSave that reads the file first and keeps, for every identity, the
\* larger of the counts of the file and of the store
MaybeSaveMerging ==
    /\ pc = "notified"
    /\ IF should_update_progress
       THEN /\ LET r == LoadProgress(file)
                   old == IF r.raised THEN EmptyStats ELSE r.store.stats
                   merged == [n \in DOMAIN stats \cup DOMAIN old |->
                                [k \in Keys |->
                                    IF n \notin DOMAIN stats THEN old[n][k]
                                    ELSE IF n \notin DOMAIN old THEN stats[n][k]
                                    ELSE IF old[n][k] > stats[n][k] THEN old[n][k]
                                    ELSE stats[n][k]]]
               IN  file' = SaveProgress([Store EXCEPT !.stats = merged])
            /\ trace' = Append(trace, Event("save", idx, correct))
       ELSE UNCHANGED <<file, trace>>
    /\ pc' = "saved"
    /\ UNCHANGED <<directory, probe, engine, memory, idx, locals, latest, sessions, runs>>

\* _process_single: self._maybe_save_progress(), the write succeeding
MaybeSave ==
    /\ pc = "notified"
    /\ IF should_update_progress
       THEN /\ file' = SaveProgress(Store)
            /\ trace' = Append(trace, Event("save", idx, correct))
       ELSE UNCHANGED <<file, trace>>
    /\ pc' = "saved"
    /\ UNCHANGED <<directory, probe, engine, memory, idx, locals, latest, sessions, runs>>

\* SaveFails with the error caught: the run goes on to the pause
SaveFailsSwallowed ==
    /\ pc = "notified"
    /\ should_update_progress
    /\ file' \in {file, SimpleFile("badjson")}
    /\ pc' = "saved"
    /\ latest' = [latest EXCEPT ![questions[idx]] = "unknown"]
    /\ UNCHANGED <<directory, probe, engine, memory, idx, locals, trace, sessions, runs>>

\* _process_single: _save_progress raising OSError (mkdir or open refused:
\* the file is as before; the write cut short: the file is no JSON)
SaveFails ==
    /\ pc = "notified"
    /\ should_update_progress
    /\ file' \in {file, SimpleFile("badjson")}
    /\ pc' = "failed"
    /\ latest' = [latest EXCEPT ![questions[idx]] = "unknown"]
    /\ UNCHANGED <<directory, probe, engine, memory, idx, locals, trace, sessions, runs>>

\* Pause with a loop that does not move to the next question
PauseStays ==
    /\ pc = "saved"
    /\ trace' = Append(trace, Event("pause", idx, correct))
    /\ pc' = "loop"
    /\ user_ans' = <<>>
    /\ correct' = FALSE
    /\ UNCHANGED <<file, directory, probe, engine, memory, idx, latest, sessions, runs>>

\* _process_single: self.interface.pause(); the loop moves on
Pause ==
    /\ pc = "saved"
    /\ trace' = Append(trace, Event("pause", idx, correct))
    /\ pc' = "loop"
    /\ idx' = idx + 1
    /\ user_ans' = <<>>
    /\ correct' = FALSE
    /\ UNCHANGED <<file, directory, probe, engine, memory, latest, sessions, runs>>

\* ShowSummary with the end of the list taken one position early
ShowSummaryEarly ==
    /\ pc = "loop"
    /\ idx >= Len(questions)
    /\ trace' = Append(trace, Event("summary", idx, FALSE))
    /\ pc' = "finished"
    /\ UNCHANGED <<file, directory, probe, engine, memory, idx, locals, latest, sessions, runs>>

\* Quiz.run: self.interface.show_summary()
ShowSummary ==
    /\ pc = "loop"
    /\ idx > Len(questions)
    /\ trace' = Append(trace, Event("summary", idx, FALSE))
    /\ pc' = "finished"
    /\ UNCHANGED <<file, directory, probe, engine, memory, idx, locals, latest, sessions, runs>>

\* a caller's own qi._save_progress() between runs (tests/test_learn.py)
SaveCall ==
    /\ pc \in {"idle", "finished"}
    /\ file' = SaveProgress(Store)
    /\ file' # file
    /\ UNCHANGED <<directory, probe, pc, engine, memory, idx, locals, trace, latest, sessions, runs>>

Next ==
    \/ Construct
    \/ StartRun
    \/ Skip
    \/ Ask
    \/ Record
    \/ Notify
    \/ MaybeSave
    \/ SaveFails
    \/ Pause
    \/ ShowSummary
    \/ SaveCall

Spec == Init /\ [][Next]_vars

\* the run loop's own steps: the program goes on whenever the interface returns
RunStep ==
    Skip \/ Ask \/ Record \/ Notify \/ MaybeSave \/ SaveFails \/ Pause \/ ShowSummary

\* files at start of the fair specification: none, or a legacy file naming
\* the solved identities
FairFiles ==
    {SimpleFile("absent")}
    \cup {ObjectFile("missing", EmptyMap, "list", QuestionsOf(S), "missing", <<>>) :
            S \in SUBSET Ids}

FairSpec == InitWith(FairFiles) /\ [][Next]_vars /\ WF_vars(RunStep)

\* ------------------------------------------------ the process being killed
\* The process is terminated between two steps of a run: nothing is written.
\* The variables of the engine keep what its memory held at that moment.
Kill ==
    /\ pc \in {"loop", "asked", "recorded", "notified", "saved"}
    /\ pc' = "killed"
    /\ latest' = IF pc \in {"recorded", "notified"}
                 THEN [latest EXCEPT ![questions[idx]] = "unknown"]
                 ELSE latest
    /\ UNCHANGED <<file, directory, probe, engine, memory, idx, locals, trace, sessions, runs>>

\* The process is terminated inside _save_progress, after open(..., "w") has
\* truncated the file and before json.dump has written all of the document:
\* the file holds a proper prefix of it, which is no JSON.
KillInWrite ==
    /\ pc = "notified"
    /\ should_update_progress
    /\ file' = SimpleFile("badjson")
    /\ pc' = "torn"
    /\ latest' = [latest EXCEPT ![questions[idx]] = "unknown"]
    /\ UNCHANGED <<directory, probe, engine, memory, idx, locals, trace, sessions, runs>>

CrashNext ==
    \/ Next
    \/ Kill
    \/ KillInWrite

\* files at start of the specification with kills: those of FairFiles, or
\* one that is no JSON
CrashFiles == FairFiles \cup {SimpleFile("badjson")}

CrashSpec == InitWith(CrashFiles) /\ [][CrashNext]_vars

\* ------------------------------------------- the same run, started twice
\* files at start of the specification with two runs: those with kills, or
\* a counter document without entries, or a legacy one with both lists
TwinFiles ==
    CrashFiles
    \cup {ObjectFile("map", EmptyMap, "missing", <<>>, "missing", <<>>)}
    \cup {ObjectFile("missing", EmptyMap, "list", QuestionsOf(S), "list", <<>>) :
            S \in SUBSET Ids}

\* an interface that was given its answers, one for each question, before
\* the first Quiz is built (tests/conftest.py); file0 is the progress file
\* the first run starts from
Scripts ==
    {[fn |-> "script", answers |-> a, phase |-> "first", file0 |-> f, file1 |-> f,
      flags |-> <<FALSE, FALSE>>,
      outcome |-> [trace |-> <<>>, store |-> EmptyStore, file |-> f]] :
        a \in [1..Len(AllFiles) -> Inputs], f \in TwinFiles}

TwinInit ==
    /\ EngineInit(TwinFiles)
    /\ probe \in Scripts
    /\ probe.file0 = file

\* The first process has ended after one run. What it did is noted, and the
\* directory is set up for a second process: its progress file is one that
\* _load_progress reads to the store the first process began with, the one
\* the first run started from or another.
Restage ==
    /\ probe.fn = "script"
    /\ probe.phase = "first"
    /\ pc = "finished"
    /\ sessions = 1
    /\ runs = 1
    /\ \E f \in TwinFiles :
          /\ LoadProgress(f) = LoadProgress(probe.file0)
          /\ file' = f
          /\ probe' = [probe EXCEPT !.phase = "second",
                                    !.file1 = f,
                                    !.flags = <<should_update_progress, skip_solved>>,
                                    !.outcome = [trace |-> trace, store |-> Store,
                                                 file |-> file]]
    /\ UNCHANGED <<directory, pc, engine, memory, idx, locals, trace, latest, sessions, runs>>

TwinNext ==
    \/ Construct
    \/ StartRun
    \/ RunStep
    \/ Restage

TwinSpec == TwinInit /\ [][TwinNext]_vars

\* ------------------------------------------------- two processes at once
\* A second process works on the same directory. One process takes steps;
\* the other one waits, and its Quiz and its place in run are kept here.
Parked(p, qs, sup, ss, st, cq, iq, i, ua, c, tr) ==
    [fn |-> "parked", pc |-> p, questions |-> qs, should_update_progress |-> sup,
     skip_solved |-> ss, stats |-> st, correct_questions |-> cq,
     incorrect_questions |-> iq, idx |-> i, user_ans |-> ua, correct |-> c,
     trace |-> tr]

ConcInit ==
    /\ EngineInit(FairFiles)
    /\ probe = Parked("none", <<>>, FALSE, FALSE, EmptyStats, <<>>, <<>>, 0, <<>>,
                      FALSE, <<>>)

\* The operating system lets the other process go on. Steps of a process
\* that touch neither the file nor the other process commute with the steps
\* of the other, so it is enough to switch before a Quiz is built, before a
\* run, between two questions and after a run.
Switch ==
    /\ probe.fn = "parked"
    /\ pc \in {"none", "raised", "idle", "loop", "finished", "failed"}
    /\ pc' = probe.pc
    /\ questions' = probe.questions
    /\ should_update_progress' = probe.should_update_progress
    /\ skip_solved' = probe.skip_solved
    /\ stats' = probe.stats
    /\ correct_questions' = probe.correct_questions
    /\ incorrect_questions' = probe.incorrect_questions
    /\ idx' = probe.idx
    /\ user_ans' = probe.user_ans
    /\ correct' = probe.correct
    /\ trace' = probe.trace
    /\ probe' = Parked(pc, questions, should_update_progress, skip_solved, stats,
                       correct_questions, incorrect_questions, idx, user_ans,
                       correct, trace)
    /\ UNCHANGED <<file, directory, latest, sessions, runs>>

ConcNext ==
    \/ Construct
    \/ StartRun
    \/ RunStep
    \/ Switch

ConcSpec == ConcInit /\ [][ConcNext]_vars

\* --------------------------------------------- calls of single functions
Untouched ==
    UNCHANGED <<file, directory, pc, engine, memory, idx, locals, trace, latest, sessions, runs>>

\* question.answers_ok(user_input)
CallAnswersOk ==
    /\ probe.fn = "answers_ok"
    /\ ~probe.done
    /\ probe' = [probe EXCEPT !.done = TRUE,
                              !.result = AnswersOk(probe.mask, probe.user_input)]
    /\ Untouched

\* question.correct_indices()
CallCorrectIndices ==
    /\ probe.fn = "correct_indices"
    /\ ~probe.done
    /\ probe' = [probe EXCEPT !.done = TRUE, !.indices = CorrectIndices(probe.mask)]
    /\ Untouched

\* Question.from_file(file)
CallFromFile ==
    /\ probe.fn = "from_file"
    /\ ~probe.done
    /\ probe' = [probe EXCEPT !.done = TRUE, !.out = FromFile(probe.src)]
    /\ Untouched

\* _collect_quiz_dirs(base)
CallCollectQuizDirs ==
    /\ probe.fn = "collect_quiz_dirs"
    /\ ~probe.done
    /\ probe' = [probe EXCEPT !.done = TRUE, !.dirs = CollectQuizDirs(probe.walk)]
    /\ Untouched

CallNext ==
    \/ CallAnswersOk
    \/ CallCorrectIndices
    \/ CallFromFile
    \/ CallCollectQuizDirs

CallSpec == CallInit /\ [][CallNext]_vars

\* ------------------------------------------------------- reading the state
\* a counter of the store, 0 for an identity it does not hold
Count(st, name, key) == IF name \in DOMAIN st THEN st[name][key] ELSE 0

Solved(name) == Count(stats, name, "correct") > 0

HasEngine == pc \notin {"none", "raised"}

\* positions of the current run's trace that hold a call op for question i
Calls(op, i) == {k \in 1..Len(trace) : trace[k].op = op /\ trace[k].idx = i}

Ops(op) == {k \in 1..Len(trace) : trace[k].op = op}

\* ------------------------------------------------------------------ C1
\* C1: when the loop reaches a question whose identity has correctCount > 0
\* in the store while skip_solved is true, the step it takes makes no call
\* of ask, notify_result or pause (the trace is as before) and leaves the
\* counters, both latest-outcome lists and the progress file unchanged; the
\* loop only moves to the next question.
SkipLeavesAllUnchanged ==
    [][ (pc = "loop" /\ idx <= Len(questions) /\ skip_solved
            /\ Count(stats, questions[idx], "correct") > 0)
        => /\ trace' = trace
           /\ stats' = stats
           /\ correct_questions' = correct_questions
           /\ incorrect_questions' = incorrect_questions
           /\ file' = file
           /\ pc' = "loop"
           /\ idx' = idx + 1 ]_vars

\* a solved first question was passed without any call, one with a wrong
\* answer on record too
SkipWitness ==
    /\ pc = "loop"
    /\ idx = 2
    /\ skip_solved
    /\ trace = <<>>
    /\ Count(stats, questions[1], "correct") > 0
    /\ Count(stats, questions[1], "incorrect") > 0

\* ------------------------------------------------------------------ C2
\* what may follow call e in the trace of one run
Follows(e, n) ==
    CASE e.op = "ask" -> n.op = "record" /\ n.idx = e.idx
      [] e.op = "record" -> n.op = "notify" /\ n.idx = e.idx /\ n.ok = e.ok
      [] e.op = "notify" ->
            /\ n.op = (IF should_update_progress THEN "save" ELSE "pause")
            /\ n.idx = e.idx
      [] e.op = "save" -> n.op = "pause" /\ n.idx = e.idx
      [] e.op = "pause" -> (n.op = "ask" /\ n.idx > e.idx) \/ n.op = "summary"
      [] OTHER -> FALSE

\* C2: for every question that is not skipped the run calls, in this order,
\* ask, the evaluation and recording of the answer, notify_result with the
\* boolean that was recorded (the store then holds the result), the save when
\* persistence is enabled, and pause; the next question's ask comes only
\* after the pause.
StepsInOrder ==
    /\ trace # <<>> => trace[1].op \in {"ask", "summary"}
    /\ \A k \in 1..(Len(trace) - 1) : Follows(trace[k], trace[k + 1])
    /\ \A k \in Ops("notify") :
          LET name == questions[trace[k].idx]
          IN  /\ Count(stats, name, IF trace[k].ok THEN "correct" ELSE "incorrect") > 0
              /\ k = Len(trace) =>
                    name \in Range(IF trace[k].ok THEN correct_questions
                                   ELSE incorrect_questions)
    /\ \A k \in Ops("save") : should_update_progress
    /\ pc = "asked" <=> (trace # <<>> /\ trace[Len(trace)].op = "ask")
    /\ pc = "recorded" <=> (trace # <<>> /\ trace[Len(trace)].op = "record")

\* a run of two questions with persistence went through all its calls
StepsWitness ==
    /\ pc = "finished"
    /\ should_update_progress
    /\ Len(questions) = 2
    /\ Len(trace) = 11
    /\ trace[3].ok /\ ~trace[8].ok

\* ------------------------------------------------------------------ C3
\* C3: within one run ask is called at most once for each question of the
\* loaded list, whatever the answers and the two flags.
AskedAtMostOnce ==
    \A i \in 1..Len(questions) : Cardinality(Calls("ask", i)) <= 1

\* a second run of the same engine asked both questions again, once each
AskedWitness ==
    /\ runs = 2
    /\ sessions = 1
    /\ pc = "finished"
    /\ Len(questions) = 2
    /\ \A i \in 1..2 : Cardinality(Calls("ask", i)) = 1

\* ------------------------------------------------------------------ C4
InRun == pc \in {"loop", "asked", "recorded", "notified", "saved"}

\* question i went through all its calls, the pause included
Processed(i) ==
    /\ Cardinality(Calls("ask", i)) = 1
    /\ Cardinality(Calls("record", i)) = 1
    /\ Cardinality(Calls("notify", i)) = 1
    /\ Cardinality(Calls("pause", i)) = 1

\* question i was passed over: no call names it, and the skip test holds
Skipped(i) ==
    /\ \A k \in 1..Len(trace) : trace[k].op = "summary" \/ trace[k].idx # i
    /\ skip_solved
    /\ Solved(questions[i])

SummaryOnceAtEnd ==
    /\ Cardinality(Ops("summary")) <= 1
    /\ pc = "finished" <=> Ops("summary") # {}
    /\ pc = "finished" =>
          /\ trace[Len(trace)].op = "summary"
          /\ \A i \in 1..Len(questions) : Processed(i) \/ Skipped(i)
          /\ (questions = <<>> \/ \A i \in 1..Len(questions) : Skipped(i))
                => trace = <<Event("summary", Len(questions) + 1, FALSE)>>

\* C4: a run that meets no error reaches Finished (every run ends finished or
\* failed by a save error); show_summary is called exactly once, as the last
\* call, only after every question was skipped or processed through its
\* pause, and it is the only call when the list is empty or every question
\* is skipped.
RunReachesSummary ==
    /\ []SummaryOnceAtEnd
    /\ (InRun ~> (pc \in {"finished", "failed"}))
    /\ ((InRun /\ ~should_update_progress) ~> (pc = "finished"))

\* a run over two questions ended by skipping the first and asking the second
SummaryWitness ==
    /\ pc = "finished"
    /\ Len(questions) = 2
    /\ Skipped(1)
    /\ Processed(2)
    /\ Len(trace) = 6

\* ------------------------------------------------------------------ C5
\* C5: recording a result adds exactly 1 to correctCount of the identity when
\* the outcome is correct and exactly 1 to incorrectCount otherwise, creating
\* a zeroed entry first when there is none; the identity's other counter and
\* the entries of all other identities (present or absent) stay as they were.
RecordAddsOne ==
    [][ (pc = "asked" /\ pc' = "recorded")
        => LET name == questions[idx]
               hit == IF correct' THEN "correct" ELSE "incorrect"
               other == IF correct' THEN "incorrect" ELSE "correct"
           IN  /\ correct' = AnswersOk(MaskOf(name), user_ans)
               /\ DOMAIN stats' = DOMAIN stats \cup {name}
               /\ DOMAIN stats'[name] = Keys
               /\ stats'[name][hit] = Count(stats, name, hit) + 1
               /\ stats'[name][other] = Count(stats, name, other)
               /\ \A n \in DOMAIN stats \ {name} : stats'[n] = stats[n] ]_vars

\* a wrong answer created the entry of the second question beside the entry
\* of the first
RecordWitness ==
    /\ pc = "recorded"
    /\ idx = 2
    /\ ~correct
    /\ DOMAIN stats = {questions[1], questions[2]}
    /\ stats[questions[2]]["incorrect"] = 1
    /\ stats[questions[2]]["correct"] = 0
    /\ stats[questions[1]]["correct"] = 1

\* ------------------------------------------------------------------ C6
NoDuplicates(list) == Cardinality(Range(list)) = Len(list)

\* C6: in every state of the store no identity is in both the correct list
\* and the incorrect list, and none occurs twice in either list.
ListsDisjointAndUnique ==
    HasEngine =>
        /\ Range(correct_questions) \cap Range(incorrect_questions) = {}
        /\ NoDuplicates(correct_questions)
        /\ NoDuplicates(incorrect_questions)

\* ------------------------------------------------------------------ C7
\* C7: after sessions that each load, record and save, the "correct" list
\* written to the file holds exactly the identities whose most recent
\* recorded outcome over all sessions was correct, and the "incorrect" list
\* exactly those whose most recent recorded outcome was incorrect.
SavedListsAreLatest ==
    (pc = "saved" /\ should_update_progress /\ \A n \in Ids : latest[n] # "unknown")
    => /\ file.kind = "object"
       /\ Range(file.correct) = {n \in Ids : latest[n] = "correct"}
       /\ Range(file.incorrect) = {n \in Ids : latest[n] = "incorrect"}

\* ------------------------------------------------------------------ C8
\* the file holds exactly what a save of the store in memory writes
FileInSync == HasEngine /\ file = SaveProgress(Store)

\* C8: a store saved to the file and loaded from it by a new engine has the
\* same correctCount and incorrectCount for every identity, and the same
\* identities.
RoundTrip ==
    [][ (FileInSync /\ sessions' = sessions + 1)
        => (pc' = "idle" /\ stats' = stats) ]_vars

\* a second engine holds counters, of both kinds, that the first one recorded
\* and saved
RoundTripWitness ==
    /\ sessions = 2
    /\ pc = "idle"
    /\ \A n \in Ids : latest[n] # "unknown"
    /\ \E n \in Ids : latest[n] = "correct"
    /\ \E n \in Ids : Count(stats, n, "incorrect") > Count(stats, n, "correct")
    /\ file.kind = "object"
    /\ stats = FromCounterFormat(file.stats)

\* ------------------------------------------------------------------ C9
\* C9: constructing the engine never raises, whatever the progress file
\* holds, and the store is empty unless the file is a JSON object.
LoadNeverRaises ==
    [][ (sessions' = sessions + 1)
        => /\ pc' = "idle"
           /\ file.kind # "object" =>
                 /\ stats' = EmptyStats
                 /\ correct_questions' = <<>>
                 /\ incorrect_questions' = <<>> ]_vars

\* ------------------------------------------------------------------ C10
AskedNow(name) ==
    /\ pc = "asked"
    /\ questions[idx] = name

\* C10: an identity with correctCount > 0 keeps it as long as its engine
\* lives, whatever is recorded for it or for others, and in a new engine
\* loaded from the file its engine saved; and with skip_solved set no step
\* asks a question whose identity has correctCount > 0.
SolvedStaysSkipped ==
    [][ \A n \in Ids :
          (HasEngine /\ Solved(n)) =>
             /\ sessions' = sessions => Solved(n)'
             /\ (sessions' # sessions /\ file = SaveProgress(Store)) => Solved(n)'
             /\ (skip_solved' /\ sessions' = sessions) => ~(AskedNow(n)' /\ ~AskedNow(n)) ]_vars

\* the run of a second engine skipped the question solved and saved by the
\* first one and recorded a wrong answer for the other question
SolvedWitness ==
    /\ sessions = 2
    /\ runs = 2
    /\ pc = "finished"
    /\ skip_solved
    /\ Len(questions) = 2
    /\ latest[questions[1]] = "correct"
    /\ Skipped(1)
    /\ Processed(2)
    /\ \E k \in Calls("record", 2) : ~trace[k].ok

\* ------------------------------------------------------------------ C11
SolvedIds == {n \in DOMAIN stats : stats[n]["correct"] > 0}

OnlyWrongIds == {n \in DOMAIN stats : stats[n]["correct"] = 0 /\ stats[n]["incorrect"] > 0}

\* C11: in every state total_unique_correct is the number of identities with
\* correctCount > 0 and total_unique_incorrect the number of identities with
\* correctCount = 0 and incorrectCount > 0, so that no identity is counted by
\* both and a solved identity is never counted as incorrect.
UniqueCounts ==
    /\ TotalUniqueCorrect(stats) = Cardinality(SolvedIds)
    /\ TotalUniqueIncorrect(stats) = Cardinality(OnlyWrongIds)
    /\ SolvedIds \cap OnlyWrongIds = {}
    /\ TotalUniqueCorrect(stats) + TotalUniqueIncorrect(stats) <= Cardinality(DOMAIN stats)

\* after a run one identity has been answered both ways and the other one
\* only wrongly
UniqueCountsWitness ==
    /\ pc = "finished"
    /\ \E n \in Ids : Count(stats, n, "correct") > 0 /\ Count(stats, n, "incorrect") > 0
    /\ \E n \in Ids : Count(stats, n, "correct") = 0 /\ Count(stats, n, "incorrect") > 0
    /\ \E k \in Ops("record") : ~trace[k].ok

\* ------------------------------------------------------------------ C12
\* C12: the ratio is total_unique_correct divided by the number of loaded
\* questions (ratio * total = number of solved identities), and it is 0 when
\* the question list is empty, whatever the store holds.
RatioOfLoaded ==
    HasEngine =>
        LET r == Ratio(stats, questions)
        IN  /\ r.den > 0
            /\ Len(questions) > 0 => r.num * Len(questions) = Cardinality(SolvedIds) * r.den
            /\ Len(questions) = 0 => r.num = 0

\* an engine over an empty directory whose store holds a solved identity
RatioWitness ==
    /\ pc = "finished"
    /\ Len(questions) = 0
    /\ Cardinality(SolvedIds) > 0
    /\ Ratio(stats, questions).num = 0

\* ------------------------------------------------------------------ C13
\* the digit characters of an input, each taken as one integer
DigitsOf(u) == {d \in 0..9 : \E i \in 1..Len(u) : u[i] = DigitChars[d + 1]}

\* the 1-based positions of '1' in a mask
OnesOf(mask) == {i \in 1..Len(mask) : mask[i] = "1"}

IndicesOfOnes ==
    (probe.fn = "correct_indices" /\ probe.done) =>
        LET ix == probe.indices
        IN  /\ \A i, j \in 1..Len(ix) : i < j => ix[i] < ix[j]
            /\ Range(ix) = OnesOf(probe.mask)

\* the mask 011 of a question with one available answer gave [2, 3]
IndicesWitness ==
    /\ probe.fn = "correct_indices"
    /\ probe.done
    /\ probe.mask = <<"0", "1", "1">>
    /\ probe.choices = 1
    /\ probe.indices = <<2, 3>>

\* ------------------------------------------------------------------ C15
\* C15: parsing a question source that has fewer than 2 lines fails with
\* MalformedQuestionError and yields no question.
ShortSourceFails ==
    ( /\ probe.fn = "from_file"
      /\ probe.done
      /\ ShouldProcess(probe.src.name)
      /\ probe.src.exists
      /\ Len(probe.src.lines) < 2 )
    => probe.out.raised = "MalformedQuestionError"

\* ------------------------------------------------------------------ C16
\* a directory that directly holds a question file or a progress file
Qualifies(d) ==
    \/ \E f \in d.entries : f[Len(f)] = ".txt"
    \/ <<"progress", ".json">> \in d.entries

\* C16: in the list of candidate directories every directory with a progress
\* file comes before every directory without one, each of the two groups is
\* in ascending order of the lower-cased path, and the list holds exactly
\* the directories of the walk that directly hold a question file or a
\* progress file, each once.
CollectedInOrder ==
    (probe.fn = "collect_quiz_dirs" /\ probe.done) =>
        LET ds == probe.dirs
            prog(d) == <<"progress", ".json">> \in d.entries
        IN  /\ \A i, j \in 1..Len(ds) :
                   i < j =>
                      /\ prog(ds[j]) => prog(ds[i])
                      /\ (prog(ds[i]) <=> prog(ds[j]))
                            => ~StrLess(LowerStr(ds[j].path), LowerStr(ds[i].path))
                      /\ ds[i] # ds[j]
            /\ Range(ds) = {d \in Range(probe.walk) : Qualifies(d)}

\* the walk met /B and /a with questions and then /b with a progress file:
\* the list is /b, /a, /B
CollectedWitness ==
    /\ probe.fn = "collect_quiz_dirs"
    /\ probe.done
    /\ Len(probe.walk) = 3
    /\ probe.walk[1].path = <<"/", "B">>
    /\ Len(probe.dirs) = 3
    /\ probe.dirs[1].path = <<"/", "b">>
    /\ probe.dirs[2].path = <<"/", "a">>
    /\ probe.dirs[3].path = <<"/", "B">>
    /\ ~HasProgress(probe.dirs[2])

\* ------------------------------------------------------------------ C17
\* all answers the store counts
SumCounts(st) ==
    LET all == {<<n, k>> : n \in DOMAIN st, k \in Keys}
        f[S \in SUBSET all] ==
            IF S = {} THEN 0
            ELSE LET x == CHOOSE y \in S : TRUE
                 IN  st[x[1]][x[2]] + f[S \ {x}]
    IN  f[all]

\* a run without skipping has ended that recorded every question and began
\* with no answer counted
RunFromEmpty ==
    /\ pc = "finished"
    /\ ~skip_solved
    /\ Cardinality(Ops("record")) = Len(questions)
    /\ SumCounts(stats) = Len(questions)

\* C17: after a run from an empty store with skip_solved off,
\* total_unique_correct is the number of questions whose answer matched,
\* total_unique_incorrect the number of those whose answer did not, their
\* sum is the number of questions, and a save that follows writes an entry
\* under "stats" for every question identity.
EndToEndCounts ==
    /\ [](RunFromEmpty =>
            /\ TotalUniqueCorrect(stats) = Cardinality({k \in Ops("record") : trace[k].ok})
            /\ TotalUniqueIncorrect(stats) = Cardinality({k \in Ops("record") : ~trace[k].ok})
            /\ TotalUniqueCorrect(stats) + TotalUniqueIncorrect(stats) = Len(questions))
    /\ [][ (RunFromEmpty /\ pc' = pc /\ file' # file)
            => /\ file'.kind = "object"
               /\ file'.statsT = "map"
               /\ Range(questions) \subseteq DOMAIN file'.stats ]_vars

\* without persistence one of two questions was answered well and the other
\* one wrongly, and the caller has saved
EndToEndWitness ==
    /\ RunFromEmpty
    /\ sessions = 1
    /\ runs = 1
    /\ ~should_update_progress
    /\ Len(questions) = 2
    /\ TotalUniqueCorrect(stats) = 1
    /\ TotalUniqueIncorrect(stats) = 1
    /\ file.kind = "object"
    /\ file.statsT = "map"
    /\ DOMAIN file.stats = Range(questions)
    /\ file.incorrectT = "list"
    /\ Len(file.incorrect) = 1

\* ------------------------------------------------------------------ C18
\* C18: with persistence on, whenever pause is invoked for a question the
\* file holds exactly the counters and both lists of the memory, that
\* question's result included; with persistence off no step of a run creates
\* or modifies the file.
PersistenceFlag ==
    [][ /\ (pc = "saved" /\ pc' = "loop" /\ should_update_progress) =>
              /\ file.kind = "object"
              /\ file.statsT = "map"
              /\ file.stats = [n \in DOMAIN stats |-> ObjectEntry(stats[n])]
              /\ file.correctT = "list" /\ file.correct = correct_questions
              /\ file.incorrectT = "list" /\ file.incorrect = incorrect_questions
              /\ questions[idx] \in DOMAIN file.stats
              /\ file.stats[questions[idx]].f[IF correct THEN "correct" ELSE "incorrect"] > 0
              /\ questions[idx] \in Range(IF correct THEN file.correct ELSE file.incorrect)
        /\ (InRun /\ ~should_update_progress /\ sessions' = sessions) => file' = file ]_vars

\* the pause of the second question is about to be invoked, the file holding
\* a wrong answer to it and the right answer to the first one
PersistenceWitness ==
    /\ pc = "saved"
    /\ should_update_progress
    /\ idx = 2
    /\ ~correct
    /\ file = SaveProgress(Store)
    /\ questions[2] \in Range(file.incorrect)
    /\ questions[1] \in Range(file.correct)

\* ------------------------------------------------------------------ C19
\* C19: a save step that fails ends the run with the error: no pause is
\* invoked for that question, no later question is asked and the summary is
\* not shown.
SaveFailureEndsRun ==
    /\ [][ (pc = "notified" /\ should_update_progress /\ pc' # pc
             /\ file' # SaveProgress(Store))
            => (pc' \notin {"saved", "loop", "asked", "finished"} /\ trace' = trace) ]_vars
    /\ [][ (pc = "failed" /\ sessions' = sessions) => UNCHANGED <<pc, trace, memory>> ]_vars
    /\ [](pc = "failed" =>
            /\ Calls("pause", idx) = {}
            /\ Ops("summary") = {}
            /\ \A k \in 1..Len(trace) : trace[k].idx <= idx
            /\ trace[Len(trace)] = Event("notify", idx, correct))

\* the save of the first of two questions has failed
SaveFailureWitness ==
    /\ pc = "failed"
    /\ idx = 1
    /\ Len(questions) = 2
    /\ file.kind = "badjson"
    /\ Calls("notify", 1) # {}

\* ------------------------------------------------------------------ C20
\* a result is in memory that no completed save has written
Unsaved == trace # <<>> /\ trace[Len(trace)].op \in {"record", "notify"}

\* the store loaded from the file is the store of the memory without the
\* unsaved result, if there is one
LoadedLacksAtMostOne ==
    LET ld == LoadProgress(file)
        lost(n, k) ==
            IF Unsaved /\ n = questions[idx] /\ k = (IF correct THEN "correct" ELSE "incorrect")
            THEN 1 ELSE 0
    IN  /\ ~ld.raised
        /\ DOMAIN ld.store.stats \subseteq DOMAIN stats
        /\ \A n \in Ids : \A k \in Keys :
               Count(ld.store.stats, n, k) = Count(stats, n, k) - lost(n, k)

\* C20: with persistence on, after the process was terminated at any point
\* of a run, between the record step and the save step and during the write
\* of the file included, the store loaded from the file is the store as of
\* the last completed save and lacks the result of at most one question.
CrashLosesAtMostOne ==
    (pc \in {"killed", "torn"} /\ should_update_progress) => LoadedLacksAtMostOne

\* C20 as the code has it: the same for a termination at any point of a run
\* outside the write of the file; a termination during the write leaves a
\* file that is no JSON, from which the empty store is loaded.
CrashOutsideWriteLosesAtMostOne ==
    /\ (pc = "killed" /\ should_update_progress) => LoadedLacksAtMostOne
    /\ pc = "torn" =>
          /\ file.kind = "badjson"
          /\ LoadProgress(file) = [raised |-> FALSE, store |-> EmptyStore]

\* the process was killed between the record and the save of the second
\* question: the file holds the result of the first one only
CrashWitness ==
    /\ pc = "killed"
    /\ should_update_progress
    /\ idx = 2
    /\ Unsaved
    /\ file.kind = "object"
    /\ Count(LoadProgress(file).store.stats, questions[1], "incorrect") = 1
    /\ Count(LoadProgress(file).store.stats, questions[2], "correct") = 0
    /\ Count(stats, questions[2], "correct") = 1

\* ------------------------------------------------------------------ C21
\* number of occurrences of a name in a list
Occurrences(list, name) == Cardinality({i \in 1..Len(list) : list[i] = name})

\* the list a document has under a key: empty when the key is absent
ListOf(t, v) == IF t = "list" THEN v ELSE <<>>

\* C21: an engine built from a legacy file (a JSON object without a stats
\* mapping) holds for every identity a correctCount equal to the number of
\* its occurrences in the file's correct list and an incorrectCount equal to
\* the number of its occurrences in the incorrect list, and no entry for an
\* identity in neither list.
LegacyCountsOccurrences ==
    [][ (sessions' = sessions + 1 /\ file.kind = "object" /\ file.statsT # "map")
        => LET cq == ListOf(file.correctT, file.correct)
               iq == ListOf(file.incorrectT, file.incorrect)
           IN  /\ pc' = "idle"
               /\ DOMAIN stats' = Range(cq) \cup Range(iq)
               /\ \A n \in Ids :
                     /\ Count(stats', n, "correct") = Occurrences(cq, n)
                     /\ Count(stats', n, "incorrect") = Occurrences(iq, n) ]_vars

\* an engine was built from a file whose correct list names the first
\* question twice and whose incorrect list names it once
LegacyWitness ==
    /\ sessions = 1
    /\ pc = "idle"
    /\ file.kind = "object"
    /\ file.statsT = "missing"
    /\ file.correct = <<AllFiles[1], AllFiles[1]>>
    /\ file.incorrect = <<AllFiles[1]>>
    /\ stats = [n \in {AllFiles[1]} |-> [correct |-> 2, incorrect |-> 1]]

\* ------------------------------------------------------------------ C22
\* C22: when the document has a stats field that is a mapping (of objects),
\* the counters are those of the mapping alone, a missing count reading 0,
\* and the lists of the document add nothing; only a document without such
\* a mapping has its lists counted.
FormatDetection ==
    [][ (sessions' = sessions + 1 /\ file.kind = "object" /\ pc' = "idle")
        => IF file.statsT = "map"
           THEN /\ DOMAIN stats' = DOMAIN file.stats
                /\ \A n \in DOMAIN file.stats : \A k \in Keys :
                      stats'[n][k] = (IF k \in DOMAIN file.stats[n].f
                                      THEN file.stats[n].f[k] ELSE 0)
           ELSE \A n \in Ids :
                   /\ Count(stats', n, "correct")
                        = Occurrences(ListOf(file.correctT, file.correct), n)
                   /\ Count(stats', n, "incorrect")
                        = Occurrences(ListOf(file.incorrectT, file.incorrect), n) ]_vars

\* an engine was built from a document whose mapping has no count for the
\* first question and whose correct list names it: its correctCount is 0
FormatWitness ==
    /\ sessions = 1
    /\ pc = "idle"
    /\ file.kind = "object"
    /\ file.statsT = "map"
    /\ AllFiles[1] \in DOMAIN file.stats
    /\ file.stats[AllFiles[1]].obj
    /\ DOMAIN file.stats[AllFiles[1]].f = {"incorrect"}
    /\ file.correctT = "list"
    /\ file.correct = <<AllFiles[1]>>
    /\ Count(stats, AllFiles[1], "correct") = 0
    /\ correct_questions = <<>>

\* ------------------------------------------------------------------ C23
\* C23: as long as an engine lives, through skips, recorded results, saves
\* and repeated runs, no counter of any identity decreases, and an identity
\* with correctCount > 0 keeps it.
CountersNeverDecrease ==
    [][ (HasEngine /\ sessions' = sessions)
        => \A n \in Ids :
              /\ \A k \in Keys : Count(stats', n, k) >= Count(stats, n, k)
              /\ Count(stats, n, "correct") > 0 => Count(stats', n, "correct") > 0 ]_vars

\* in its second run an engine has recorded a wrong answer for an identity
\* that it holds as solved
NeverDecreaseWitness ==
    /\ sessions = 1
    /\ runs = 2
    /\ pc = "recorded"
    /\ ~correct
    /\ Count(stats, questions[idx], "correct") > 0
    /\ Count(stats, questions[idx], "incorrect") > 0

\* ------------------------------------------------------------------ C24
\* the second of two processes has ended its one run; it was built over the
\* same directory with the flags of the first, from a progress file that
\* loads to the store the first began with, and was given the same answers
SecondRunEnded ==
    /\ probe.fn = "script"
    /\ probe.phase = "second"
    /\ sessions = 2
    /\ runs = 2
    /\ pc = "finished"
    /\ <<should_update_progress, skip_solved>> = probe.flags

SameOutcome ==
    /\ trace = probe.outcome.trace
    /\ Store = probe.outcome.store
    /\ file = probe.outcome.file

ShownSummary == pc = "finished" \/ (sessions = 1 /\ runs > 1 /\ InRun)

\* C26: an engine moves only from idle to running to finished, and once it
\* has shown the summary it invokes no further ask, notify_result or pause
\* and does not modify its store.
FinishedIsTerminal ==
    [][ (HasEngine /\ sessions' = sessions)
        => /\ pc = "idle" => pc' \in {"idle", "loop"}
           /\ ShownSummary =>
                 /\ memory' = memory
                 /\ ~( /\ Len(trace') = Len(trace) + 1
                       /\ trace'[Len(trace')].op \in {"ask", "notify", "pause"} ) ]_vars

\* ------------------------------------------------------------------ C27
\* question i was solved when the run began: its entry changes only by its
\* own result, recorded at most once in a run
SolvedAtStart(i) ==
    Count(stats, questions[i], "correct")
        - (IF \E k \in Calls("record", i) : trace[k].ok THEN 1 ELSE 0) > 0

\* C27: with skip_solved set, the questions a run presents are exactly those
\* with correctCount 0 when the run began, in load order, and each ask gets
\* the position of the question in the whole list and the length of the
\* whole list.
AsksUnsolvedInOrder ==
    (pc = "finished" /\ skip_solved) =>
        /\ {i \in 1..Len(questions) : Calls("ask", i) # {}}
              = {i \in 1..Len(questions) : ~SolvedAtStart(i)}
        /\ \A k, m \in Ops("ask") : k < m => trace[k].idx < trace[m].idx
        /\ \A k \in Ops("ask") :
              /\ trace[k].idx \in 1..Len(questions)
              /\ trace[k].total = Len(questions)
              /\ Cardinality(Calls("ask", trace[k].idx)) = 1

\* the first of two questions was skipped and the only ask of the run got
\* position 2 of 2; its answer was right
AsksWitness ==
    /\ pc = "finished"
    /\ skip_solved
    /\ Len(questions) = 2
    /\ Skipped(1)
    /\ Cardinality(Ops("ask")) = 1
    /\ \E k \in Ops("ask") : trace[k].idx = 2 /\ trace[k].total = 2
    /\ \E k \in Calls("record", 2) : trace[k].ok

\* ------------------------------------------------------------------ C28
\* C28: in every state total_unique_correct is at most the number of loaded
\* questions, so that the ratio is at most 1, also when the file loaded at
\* start names identities that are not among the loaded questions.
SolvedAtMostLoaded ==
    HasEngine =>
        /\ TotalUniqueCorrect(stats) <= Len(questions)
        /\ Ratio(stats, questions).num <= Ratio(stats, questions).den

\* ------------------------------------------------------------------ C29
\* C29: every question can be answered: for every mask, also one with a '1'
\* at position 10 or later, answers_ok accepts the input that lists the
\* correct indices separated by spaces.
ListedIndicesAccepted ==
    ( /\ probe.fn = "answers_ok"
      /\ probe.done
      /\ probe.user_input = Join(CorrectIndices(probe.mask), <<" ">>) )
        => probe.result

\* ------------------------------------------------------------------ C30
\* a counter the file holds: 0 unless it is a document with a mapping whose
\* entry for the identity is an object that has the count
FileCount(f, n, k) ==
    IF f.kind = "object" /\ f.statsT = "map" /\ n \in DOMAIN f.stats
       /\ f.stats[n].obj /\ k \in DOMAIN f.stats[n].f
    THEN f.stats[n].f[k]
    ELSE 0

\* C30: within one session no save lowers a counter of the file: after every
\* save each count of each identity in the file is at least what the file
\* held before, hence at least what it held when the session loaded it.
FileCountersNeverDecrease ==
    [][ (HasEngine /\ sessions' = sessions /\ file' # file /\ file'.kind = "object")
        => \A n \in Ids : \A k \in Keys :
              FileCount(file', n, k) >= FileCount(file, n, k) ]_vars

\* a second session has saved an answer to one question; the file still
\* holds the count of another identity that it held at the load
FileCountersWitness ==
    /\ sessions = 2
    /\ pc = "saved"
    /\ should_update_progress
    /\ file = SaveProgress(Store)
    /\ \E n \in Ids :
          /\ n # questions[idx]
          /\ FileCount(file, n, "correct") + FileCount(file, n, "incorrect") > 0

\* ------------------------------------------------------------------ C25
\* C25: with two processes on one progress file, every save leaves in the
\* file exactly the store of the process that saves: its counters, for its
\* identities only, and its two lists; nothing of what the file held before
\* is kept.
LastWriterWins ==
    [][ (file' # file /\ file'.kind = "object")
        => /\ file'.statsT = "map"
           /\ DOMAIN file'.stats = DOMAIN stats
           /\ \A n \in DOMAIN stats : \A k \in Keys : FileCount(file', n, k) = stats[n][k]
           /\ file'.correctT = "list"
           /\ file'.correct = correct_questions
           /\ file'.incorrectT = "list"
           /\ file'.incorrect = incorrect_questions ]_vars

\* the waiting process has saved its answer to a question, and the save of
\* the other process has since left a file that holds no count of it
ErasedWitness ==
    /\ probe.fn = "parked"
    /\ probe.should_update_progress
    /\ should_update_progress
    /\ pc = "saved"
    /\ file = SaveProgress(Store)
    /\ \E k \in 1..Len(probe.trace) :
          /\ probe.trace[k].op = "pause"
          /\ LET n == probe.questions[probe.trace[k].idx]
             IN  /\ probe.stats[n]["correct"] + probe.stats[n]["incorrect"] = 1
                 /\ FileCount(file, n, "correct") + FileCount(file, n, "incorrect") = 0

====
